---------------------------- MODULE Spec2Model ----------------------------
(***************************************************************************)
(* Model of the two harvesters of cc-youtube-harvest:                      *)
(*   cc_index_only.py       Common Crawl Index API harvester  (CC)         *)
(*   wayback_cdx_sourcer.py Wayback CDX API harvester         (WB)         *)
(* Text is modelled as a sequence of one-character strings, so that the    *)
(* URL normalizers are computed character by character as the code does.   *)
(***************************************************************************)
EXTENDS Integers, Sequences, FiniteSets, TLC

(***************************************************************************)
(* Python str primitives used by the two normalize_url functions.          *)
(***************************************************************************)

\* s[:n]
Take(s, n) == SubSeq(s, 1, IF n < Len(s) THEN n ELSE Len(s))

\* s[n:]
Drop(s, n) == SubSeq(s, n + 1, Len(s))

\* s.startswith(p)
StartsWith(s, p) == Len(p) <= Len(s) /\ SubSeq(s, 1, Len(p)) = p

\* s.find(sub), 1-based; 0 when sub does not occur (Python: -1)
Find(s, sub) ==
    LET hits == {i \in 1..(Len(s) - Len(sub) + 1) : SubSeq(s, i, i + Len(sub) - 1) = sub}
    IN  IF hits = {} THEN 0 ELSE CHOOSE i \in hits : \A j \in hits : i <= j

\* s.rfind(sub), 1-based; 0 when sub does not occur
RFind(s, sub) ==
    LET hits == {i \in 1..(Len(s) - Len(sub) + 1) : SubSeq(s, i, i + Len(sub) - 1) = sub}
    IN  IF hits = {} THEN 0 ELSE CHOOSE i \in hits : \A j \in hits : i >= j

\* sub in s
Contains(s, sub) == Find(s, sub) # 0

\* s.split(sep, 1)[0] for a one-character sep
BeforeFirst(s, sep) ==
    LET i == Find(s, <<sep>>) IN IF i = 0 THEN s ELSE Take(s, i - 1)

\* s.split(sep, 1)[-1] for a one-character sep
AfterFirst(s, sep) ==
    LET i == Find(s, <<sep>>) IN IF i = 0 THEN s ELSE Drop(s, i)

\* s.rstrip(c): every trailing c is removed
RECURSIVE RStrip(_, _)
RStrip(s, c) ==
    IF Len(s) > 0 /\ s[Len(s)] = c THEN RStrip(Take(s, Len(s) - 1), c) ELSE s

\* s.lstrip(c)
RECURSIVE LStrip(_, _)
LStrip(s, c) ==
    IF Len(s) > 0 /\ s[1] = c THEN LStrip(Tail(s), c) ELSE s

\* s.strip(): the whitespace of the model's alphabet is the blank
Strip(s) == RStrip(LStrip(s, " "), " ")

\* s.split(sep) for a one-character sep: the list of pieces
RECURSIVE Split(_, _)
Split(s, sep) ==
    LET i == Find(s, <<sep>>)
    IN  IF i = 0 THEN <<s>> ELSE <<Take(s, i - 1)>> \o Split(Drop(s, i), sep)

\* s.replace(old, "")
RECURSIVE RemoveAll(_, _)
RemoveAll(s, old) ==
    LET i == Find(s, old)
    IN  IF i = 0 THEN s ELSE Take(s, i - 1) \o RemoveAll(Drop(s, i + Len(old) - 1), old)

\* The printable ASCII characters, code 32 at index 1.
ASCII ==
    << " ", "!", "\"", "#", "$", "%", "&", "'", "(", ")", "*", "+", ",", "-", ".", "/",
       "0", "1", "2", "3", "4", "5", "6", "7", "8", "9", ":", ";", "<", "=", ">", "?",
       "@", "A", "B", "C", "D", "E", "F", "G", "H", "I", "J", "K", "L", "M", "N", "O",
       "P", "Q", "R", "S", "T", "U", "V", "W", "X", "Y", "Z", "[", "\\", "]", "^", "_",
       "<96>", "a", "b", "c", "d", "e", "f", "g", "h", "i", "j", "k", "l", "m", "n", "o",
       "p", "q", "r", "s", "t", "u", "v", "w", "x", "y", "z", "{", "|", "}", "~" >>

\* ord(c) for a printable ASCII character, 0 for any other
Ord(c) ==
    IF \E i \in 1..Len(ASCII) : ASCII[i] = c
    THEN (CHOOSE i \in 1..Len(ASCII) : ASCII[i] = c) + 31
    ELSE 0

\* chr(n): a code outside printable ASCII decodes to a character that is no
\* URL syntax character; it is written "<?>"
Chr(n) == IF n >= 32 /\ n <= 126 THEN ASCII[n - 31] ELSE "<?>"

\* c.lower()
Lower(c) == LET n == Ord(c) IN IF n >= 65 /\ n <= 90 THEN Chr(n + 32) ELSE c

LowerStr(s) == [i \in 1..Len(s) |-> Lower(s[i])]

\* the value of a hexadecimal digit, -1 for any other character
HexVal(c) ==
    LET n == Ord(c)
    IN  IF n >= 48 /\ n <= 57 THEN n - 48
        ELSE IF n >= 65 /\ n <= 70 THEN n - 55
        ELSE IF n >= 97 /\ n <= 102 THEN n - 87
        ELSE -1

\* urllib.parse.unquote: one left-to-right pass; %XX with two hex digits is
\* decoded, any other % is kept
RECURSIVE unquote(_)
unquote(s) ==
    IF s = <<>> THEN <<>>
    ELSE IF s[1] = "%" /\ Len(s) >= 3 /\ HexVal(s[2]) >= 0 /\ HexVal(s[3]) >= 0
         THEN <<Chr(16 * HexVal(s[2]) + HexVal(s[3]))>> \o unquote(Drop(s, 3))
         ELSE <<s[1]>> \o unquote(Tail(s))

\* str.isdigit() on a non-empty string: the strings int(s) accepts, in the alphabet of the model
IsDecimal(s) == Len(s) > 0 /\ \A i \in 1..Len(s) : Ord(s[i]) >= 48 /\ Ord(s[i]) <= 57

(***************************************************************************)
(* Text constants of the two programs.                                     *)
(***************************************************************************)

S_https   == <<"h", "t", "t", "p", "s", ":", "/", "/">>
S_http    == <<"h", "t", "t", "p", ":", "/", "/">>
S_slash2  == <<"/", "/">>
S_m       == <<"m", ".">>
S_www     == <<"w", "w", "w", ".">>
S_yt      == <<"y", "o", "u", "t", "u", "b", "e", ".", "c", "o", "m">>
S_browse  == <<"b", "r", "o", "w", "s", "e">>
S_UC      == <<"U", "C">>
S_channel == <<"/", "c", "h", "a", "n", "n", "e", "l", "/">>

\* "https://www.youtube.com", the host of every identity both programs build
CanonHost == S_https \o S_www \o S_yt

\* cc_index_only.py ALLOWED_PREFIXES
ALLOWED_PREFIXES ==
    { <<"/", "@">>, <<"/", "c", "/">>, <<"/", "c", "h", "a", "n", "n", "e", "l", "/">>, <<"/", "u", "s", "e", "r", "/">>, <<"/", "+">> }

\* wayback_cdx_sourcer.py normalize_url: the bare paths it rejects
WBBarePaths ==
    { <<"/", "@">>, <<"/", "c">>, <<"/", "c", "h", "a", "n", "n", "e", "l", "/", "U", "C">>, <<"/", "u", "s", "e", "r">>, <<"/", "+">> }

\* wayback_cdx_sourcer.py normalize_url: the prefixes it accepts, in order
WBPrefixes ==
    << <<"/", "@">>, <<"/", "c", "/">>, <<"/", "c", "h", "a", "n", "n", "e", "l", "/">>, <<"/", "u", "s", "e", "r", "/">>, <<"/", "+", "/">> >>

\* Python's None, as returned by the CDX normalize_url and by stream_cdx
None == <<"<None>">>

(***************************************************************************)
(* cc_index_only.py normalize_url                                          *)
(***************************************************************************)

\* scheme_re.sub("", dec): ^(?:https?://|//)?(?:m\.)?(?:www\.)? ignoring case,
\* each optional group greedy, anchored at the start
SchemeStrip(dec) ==
    LET l  == LowerStr(dec)
        a  == IF StartsWith(l, S_https) THEN Len(S_https)
              ELSE IF StartsWith(l, S_http) THEN Len(S_http)
              ELSE IF StartsWith(l, S_slash2) THEN Len(S_slash2)
              ELSE 0
        l1 == Drop(l, a)
        b  == IF StartsWith(l1, S_m) THEN Len(S_m) ELSE 0
        l2 == Drop(l1, b)
        c  == IF StartsWith(l2, S_www) THEN Len(S_www) ELSE 0
    IN  Drop(dec, a + b + c)

\* normalize_url of cc_index_only.py; "" is the empty sequence
normalize_url_cc(raw) ==
    LET dec      == unquote(Strip(raw))
        path     == RStrip(BeforeFirst(BeforeFirst(SchemeStrip(dec), "?"), "#"), "/")
        segments == Split(path, "/")
        last     == segments[Len(segments)]
        cand     == AfterFirst(last, "-")
    IN  IF Len(segments) = 2 /\ segments[2] # <<>>
        THEN CanonHost \o <<"/">> \o segments[2]
        ELSE IF segments[1] = S_browse /\ Contains(last, <<"-">>) /\ StartsWith(cand, S_UC)
        THEN CanonHost \o S_channel \o cand
        ELSE <<>>

\* main, lines 171-174 without the seen test: the identity is kept only if it
\* is non-empty and what follows the host starts with an allowed prefix
CCAccepts(clean) ==
    /\ clean # <<>>
    /\ \E pre \in ALLOWED_PREFIXES : StartsWith(RemoveAll(clean, CanonHost), pre)

(***************************************************************************)
(* wayback_cdx_sourcer.py normalize_url                                    *)
(***************************************************************************)

IsAlpha(c) == LET n == Ord(c) IN (n >= 65 /\ n <= 90) \/ (n >= 97 /\ n <= 122)

\* urllib.parse scheme_chars: letters, digits and "+-."
IsSchemeChar(c) ==
    LET n == Ord(c) IN IsAlpha(c) \/ (n >= 48 /\ n <= 57) \/ c \in {"+", "-", "."}

\* the schemes of urllib.parse uses_params that the alphabet can spell
UsesParams == { <<>>, <<"h", "t", "t", "p">>, <<"h", "t", "t", "p", "s">>, <<"f", "t", "p">> }

\* urllib.parse._splitparams(url)[0]
SplitParams(url) ==
    LET r == RFind(url, <<"/">>)
        i == IF r # 0
             THEN (LET j == Find(Drop(url, r - 1), <<";">>) IN IF j = 0 THEN 0 ELSE j + r - 1)
             ELSE Find(url, <<";">>)
    IN  IF i = 0 THEN url ELSE Take(url, i - 1)

\* urlparse(raw).path: leading blanks stripped, then scheme, //netloc,
\* #fragment, ?query and ;params are split off
urlparse_path(raw) ==
    LET u0     == LStrip(raw, " ")
        i      == Find(u0, <<":">>)
        hasSch == i > 1 /\ IsAlpha(u0[1]) /\ \A k \in 1..(i - 1) : IsSchemeChar(u0[k])
        scheme == IF hasSch THEN LowerStr(Take(u0, i - 1)) ELSE <<>>
        u1     == IF hasSch THEN Drop(u0, i) ELSE u0
        stops  == {k \in 3..Len(u1) : u1[k] \in {"/", "?", "#"}}
        u2     == IF StartsWith(u1, S_slash2)
                  THEN (IF stops = {} THEN <<>>
                        ELSE Drop(u1, (CHOOSE k \in stops : \A j \in stops : k <= j) - 1))
                  ELSE u1
        u3     == BeforeFirst(BeforeFirst(u2, "#"), "?")
    IN  IF scheme \in UsesParams /\ Contains(u3, <<";">>) THEN SplitParams(u3) ELSE u3

\* normalize_url of wayback_cdx_sourcer.py
normalize_url_wb(raw) ==
    LET path == unquote(urlparse_path(raw))
        i    == Find(path, S_UC)
        hits == {k \in 1..Len(WBPrefixes) : StartsWith(path, WBPrefixes[k])}
    IN  IF RStrip(path, "/") \in WBBarePaths THEN None
        ELSE IF Contains(path, <<"/">> \o S_browse \o <<"/">>) /\ i # 0
        THEN CanonHost \o S_channel \o Drop(path, i - 1)
        ELSE IF hits # {} THEN RStrip(CanonHost \o path, "/")
        ELSE None

\* "not norm" in backfill
Falsy(v) == v = None \/ v = <<>>

(***************************************************************************)
(* Dates: a datetime at midnight UTC is <<year, month, day>>.              *)
(***************************************************************************)

IsLeap(y) == (y % 4 = 0 /\ y % 100 # 0) \/ y % 400 = 0

\* calendar.monthrange(y, m)[1]
monthrange(y, m) ==
    IF m = 2 THEN (IF IsLeap(y) THEN 29 ELSE 28)
    ELSE IF m \in {4, 6, 9, 11} THEN 30 ELSE 31

\* a <= b on datetimes
DateLE(a, b) ==
    \/ a[1] < b[1]
    \/ a[1] = b[1] /\ a[2] < b[2]
    \/ a[1] = b[1] /\ a[2] = b[2] /\ a[3] <= b[3]

DateMin(a, b) == IF DateLE(a, b) THEN a ELSE b

\* dt + timedelta(days=1)
NextDay(dt) ==
    IF dt[3] < monthrange(dt[1], dt[2]) THEN <<dt[1], dt[2], dt[3] + 1>>
    ELSE IF dt[2] < 12 THEN <<dt[1], dt[2] + 1, 1>>
    ELSE <<dt[1] + 1, 1, 1>>

\* dt + timedelta(days=n), n >= 0
RECURSIVE AddDays(_, _)
AddDays(dt, n) == IF n = 0 THEN dt ELSE AddDays(NextDay(dt), n - 1)

\* days of the months of year y before month m
RECURSIVE DaysBeforeMonth(_, _)
DaysBeforeMonth(y, m) ==
    IF m = 1 THEN 0 ELSE DaysBeforeMonth(y, m - 1) + monthrange(y, m - 1)

\* dt.toordinal()
Ordinal(dt) ==
    LET y1 == dt[1] - 1
    IN  365 * y1 + (y1 \div 4) - (y1 \div 100) + (y1 \div 400)
        + DaysBeforeMonth(dt[1], dt[2]) + dt[3]

\* (b - a).days
DaysBetween(a, b) == Ordinal(b) - Ordinal(a)

\* dt.strftime("%Y%m%d"): the eight digits, read as a number
strftime(dt) == dt[1] * 10000 + dt[2] * 100 + dt[3]

(***************************************************************************)
(* wayback_cdx_sourcer.py month_boundaries and week_ranges, as the steps   *)
(* of the two generators.                                                  *)
(***************************************************************************)

\* month_boundaries line 46: current = start_dt.replace(day=1)
MonthFirst(start_dt) == <<start_dt[1], start_dt[2], 1>>

\* month_boundaries lines 48-53: the pair (ms, me) yielded for current
MonthYield(cur_dt, end_dt) ==
    LET last == <<cur_dt[1], cur_dt[2], monthrange(cur_dt[1], cur_dt[2])>>
    IN  <<cur_dt, IF ~DateLE(last, end_dt) THEN end_dt ELSE last>>

\* month_boundaries lines 55-58: advance to the next month
MonthAdvance(cur_dt) ==
    IF cur_dt[2] = 12 THEN <<cur_dt[1] + 1, 1, 1>>
    ELSE <<cur_dt[1], cur_dt[2] + 1, 1>>

\* week_ranges days=7
WeekDays == 7

\* week_ranges line 63: we = min(cur + timedelta(days=days-1), end_dt)
WeekEnd(cur_dt, end_dt) == DateMin(AddDays(cur_dt, WeekDays - 1), end_dt)

(***************************************************************************)
(* Bounds of the model and the inputs drawn from them.                     *)
(***************************************************************************)

\* --batch-size is drawn from 1..MaxBatch
MaxBatch == 2

\* len(snaps), the snapshots of the requested year, is drawn from 0..MaxSnaps
MaxSnaps == 1

\* --max-pages of the runs
MaxPages == 2

\* continuation pages the upstream serves for one resumeKey stream
MaxCont == 1

\* explicit ranges of the planner runs: start and end are drawn from the
\* PlanDays + 1 days that begin at PlanBase
PlanDays == 62

PlanBase == <<2023, 12, 30>>

\* len(PATTERNS), the same in both programs
NPatterns == 5

\* fetch_index_records retries=5
Retries == 5

\* raw URLs the upstream serves in the runs
U1 == <<"h", "t", "t", "p", "s", ":", "/", "/", "w", "w", "w", ".", "y", "o", "u", "t", "u", "b", "e", ".", "c", "o", "m", "/", "@", "a">>
U2 == <<"h", "t", "t", "p", ":", "/", "/", "y", "o", "u", "t", "u", "b", "e", ".", "c", "o", "m", "/", "@", "a", "/">>
U3 == <<"h", "t", "t", "p", "s", ":", "/", "/", "m", ".", "y", "o", "u", "t", "u", "b", "e", ".", "c", "o", "m", "/", "@", "b", "?", "x", "=", "1">>
U4 == <<"h", "t", "t", "p", "s", ":", "/", "/", "w", "w", "w", ".", "y", "o", "u", "t", "u", "b", "e", ".", "c", "o", "m", "/", "c", "/">>

\* a line of an Index API page that json.loads rejects
BadLine == <<"<not json>">>

\* the "url" field of the records of one Index API page, line by line
CCPages == { <<U1, U3>>, <<U2, BadLine, U4>>, <<U3>> }

\* the URLs (rec[0] for rec in data[1:]) of one CDX page
WBPages == { <<>>, <<U1, U3>>, <<U4, U2>> }

RunURLs == {U1, U2, U3, U4}

\* the two identities the runs can record, and the identity the Index API
\* harvester builds for U4 and its prefix filter then drops
IdA  == CanonHost \o <<"/", "@", "a">>
IdB  == CanonHost \o <<"/", "@", "b">>
IdU4 == CanonHost \o <<"/", "c">>

\* normalize_url of cc_index_only.py on the lines the upstream serves, and
\* normalize_url of wayback_cdx_sourcer.py on the URLs it serves: the values
\* that normalize_url_cc and normalize_url_wb compute, written out so that a
\* step of a run looks them up (NormTablesExact states the equality)
NormCC ==
    [u \in RunURLs \cup {BadLine} |->
        IF u \in {U1, U2} THEN IdA
        ELSE IF u = U3 THEN IdB
        ELSE IF u = U4 THEN IdU4
        ELSE <<>>]

NormWB ==
    [u \in RunURLs |->
        IF u \in {U1, U2} THEN IdA ELSE IF u = U3 THEN IdB ELSE None]

\* the lines whose identity passes the prefix filter of main, lines 173-174
KeptCC == {U1, U2, U3}

\* every identity a run can record
Identities == {IdA, IdB}

NormTablesExact ==
    /\ \A u \in RunURLs \cup {BadLine} : NormCC[u] = normalize_url_cc(u)
    /\ \A u \in RunURLs : NormWB[u] = normalize_url_wb(u)
    /\ KeptCC = {u \in RunURLs : CCAccepts(normalize_url_cc(u))}
    /\ Identities = {NormCC[u] : u \in KeptCC}
                    \cup {NormWB[u] : u \in {v \in RunURLs : ~Falsy(NormWB[v])}}

\* explicit (--start-date, --end-date) pairs of the CDX runs
WBRanges ==
    { << <<2023, 2, 3>>, <<2023, 2, 8>> >>,
      << <<2023, 2, 9>>, <<2023, 2, 3>> >>,
      << <<2023, 3, 1>>, <<2023, 2, 9>> >> }

\* Retry-After of a 429 response: absent, delay-seconds, or an HTTP-date
NoHeader == <<"<absent>">>
RetryAfterValues == { NoHeader, <<"2">>, <<"W", "e", "d", ",", " ", "2", "1", " ", "O", "c", "t", " ", "2", "0", "2", "6", " ", "0", "7", ":", "2", "8", ":", "0", "0", " ", "G", "M", "T">> }

\* responses that are no success: bad request, rate limit, server error,
\* network failure (a RequestException without a response)
FailKinds == {"400", "429", "5xx", "net"}

VARIABLES
    prog,        \* which program runs: "cc", "wb", or "plan" (the planner alone)
    pc,          \* position of the run
    exc,         \* the exception that ended the process, "none" while it runs
    batch_size,  \* args.batch_size
    max_pages,   \* args.max_pages
    nsnaps,      \* len(snaps) that discover_snapshots finds
    sink0,       \* identities in the sink when the run starts
    seen,        \* seen
    batch,       \* batch (the url of each row)
    total,       \* total_new / total
    rows,        \* history: rows submitted to insert_rows_json, per identity
    snap, pat, page,          \* loop indices of main
    attempt, backoff,         \* locals of the running fetch_index_records call, 0 outside
    lines,                    \* the lines of the page that "for line in lines" has yet to take
    start, end,               \* args.start_date, args.end_date
    current, ms, me,          \* month_boundaries state and the month it yielded
    cur, frm, to,             \* week_ranges state and the window it yielded
    fb, dayIdx,               \* inside the single-day fallback, and its d
    qfrm, qto,                \* frm, to of the running stream_cdx call
    urls,                     \* all_urls while stream_cdx builds it, then the URLs
                              \* that "for raw in urls" has yet to take
    conts,                    \* continuation requests of the running stream_cdx call
    resp,        \* kind of the response received in this step, "none" if no request
    req,         \* history: the last request issued
    msgs,        \* what this step printed
    errs,        \* what insert_rows_json returned in this step: "none", "ok", "errors"
    reoffered,   \* history: an identity the run accepted was offered again
    dayUrls,     \* history: identities served for the days of the failed window
    daysOK,      \* history: every day query of the failed window succeeded so far
    promised,    \* history: identities of windows recovered day by day
    windows,     \* history: the windows the planner produced, as day ordinals
    url_raw,     \* the raw URL handed to normalize_url, as a line or a CDX row has it
    url_kind,    \* how url_raw was built: "direct", "bare", "browse" or "encoded"
    url_path,    \* the path url_raw was built from
    id_cc,       \* clean = normalize_url(raw) of cc_index_only.py
    id_wb,       \* norm = normalize_url(raw) of wayback_cdx_sourcer.py
    again        \* normalize_url of each program applied to what it returned

ccVars   == <<max_pages, nsnaps, snap, page, attempt, backoff, lines>>
wbVars   == <<start, end, current, ms, me, cur, frm, to, fb, dayIdx, qfrm, qto,
              urls, conts>>
histVars == <<reoffered, dayUrls, daysOK, promised, windows>>
normVars == <<url_raw, url_kind, url_path, id_cc, id_wb, again>>
vars     == <<prog, pc, exc, batch_size, sink0, seen, batch, total, rows, pat,
              resp, req, msgs, errs, ccVars, wbVars, histVars, normVars>>

NoDate == <<0, 0, 0>>

\* the variables of the program that does not run keep these values
CCIdle ==
    /\ max_pages = 0 /\ nsnaps = 0 /\ snap = 0 /\ page = 0
    /\ attempt = 0 /\ backoff = 0 /\ lines = <<>>

WBIdle ==
    /\ current = NoDate /\ ms = NoDate /\ me = NoDate /\ cur = NoDate
    /\ frm = 0 /\ to = 0 /\ fb = FALSE /\ dayIdx = 0 /\ qfrm = 0 /\ qto = 0
    /\ urls = <<>> /\ conts = 0

Common0 ==
    /\ exc = "none" /\ seen = {} /\ batch = <<>> /\ total = 0
    /\ rows = [i \in Identities |-> 0] /\ pat = 0
    /\ resp = "none" /\ req = <<>> /\ msgs = {} /\ errs = "none"
    /\ reoffered = FALSE /\ dayUrls = {} /\ daysOK = FALSE /\ promised = {}
    /\ windows = <<>>

\* no URL is looked at on its own in a run of a harvester or of the planner
NormIdle ==
    /\ url_raw = <<>> /\ url_kind = "none" /\ url_path = <<>>
    /\ id_cc = <<>> /\ id_wb = <<>> /\ again = <<>>

\* the state in which main of cc_index_only.py starts
InitCC ==
    /\ prog = "cc" /\ pc = "cc_start"
    /\ batch_size \in 1..MaxBatch
    /\ sink0 \in SUBSET Identities
    /\ Common0 /\ WBIdle /\ NormIdle
    /\ start = NoDate /\ end = NoDate
    /\ max_pages = MaxPages /\ nsnaps \in 0..MaxSnaps
    /\ snap = 0 /\ page = 0 /\ attempt = 0 /\ backoff = 0 /\ lines = <<>>

\* the state in which backfill of wayback_cdx_sourcer.py starts
InitWB ==
    /\ prog = "wb" /\ pc = "wb_start"
    /\ batch_size \in 1..MaxBatch
    /\ sink0 \in SUBSET Identities
    /\ Common0 /\ CCIdle /\ WBIdle /\ NormIdle
    /\ \E r \in WBRanges : start = r[1] /\ end = r[2]

Init == InitCC \/ InitWB

(***************************************************************************)
(* The sink's batched insert.                                              *)
(***************************************************************************)

\* history: the rows of batch b are submitted
RowsPlus(b) ==
    [i \in Identities |-> rows[i] + Cardinality({k \in 1..Len(b) : b[k] = i})]

\* save_batch that swallows the row errors (mutant of save_batch)
save_batch_silent(b, e) ==
    /\ rows' = RowsPlus(b)
    /\ errs' = IF e THEN "errors" ELSE "ok"
    /\ msgs' = {}

\* save_batch(client, table_ref, urls): e says whether insert_rows_json
\* returned row errors
save_batch(b, e) ==
    /\ rows' = RowsPlus(b)
    /\ errs' = IF e THEN "errors" ELSE "ok"
    /\ msgs' = IF e THEN {"insert errors"} ELSE {}

\* insert_rows(client, ds, tbl, rows)
insert_rows(b, e) ==
    /\ rows' = RowsPlus(b)
    /\ errs' = IF e THEN "errors" ELSE "ok"
    /\ msgs' = IF e THEN {"insert errors"} ELSE {"inserted"}

NoInsert == rows' = rows /\ errs' = "none"

\* the novelty test left out (mutant of Novel)
NovelAlways(id) == TRUE

\* "clean not in seen" / "norm in seen"
Novel(id) == id \notin seen

\* batch.append(id) without seen.add(id) (mutant of Accept)
AcceptNoSeen(id) ==
    /\ seen' = seen
    /\ batch' = Append(batch, id)

\* seen.add(id); batch.append(id)
Accept(id) ==
    /\ seen' = seen \cup {id}
    /\ batch' = Append(batch, id)

\* history: an identity this run accepted is offered again
NoteOffer(id) ==
    reoffered' = (reoffered \/ (id \in seen /\ id \notin sink0))

(***************************************************************************)
(* cc_index_only.py: main and fetch_index_records.                         *)
(***************************************************************************)

Static == UNCHANGED <<prog, batch_size, sink0, max_pages, nsnaps, start, end>>

CCFrame == Static /\ UNCHANGED <<wbVars, dayUrls, daysOK, promised, windows, normVars>>

\* fetch_index_records(snap, pattern, page) is called: lines 105-108
CCCall(s, p, g) ==
    /\ pc' = "cc_fetch"
    /\ snap' = s /\ pat' = p /\ page' = g
    /\ attempt' = 1 /\ backoff' = 1

\* "if not lines: break", or the pages of the pattern are used up: the next
\* pattern, the next snapshot, or the end of main
CCBreak ==
    IF pat < NPatterns THEN CCCall(snap, pat + 1, 0)
    ELSE IF snap < nsnaps THEN CCCall(snap + 1, 1, 0)
    ELSE pc' = "done" /\ attempt' = 0 /\ backoff' = 0 /\ UNCHANGED <<snap, pat, page>>

\* discover_snapshots: no snapshot of the year is fatal
CCDiscover ==
    /\ pc = "cc_start"
    /\ IF nsnaps = 0
       THEN pc' = "exit" /\ exc' = "SystemExit" /\ msgs' = {"no snapshots"}
       ELSE pc' = "cc_preload" /\ exc' = exc /\ msgs' = {}
    /\ resp' = "none" /\ NoInsert
    /\ UNCHANGED <<seen, batch, total, pat, req, snap, page, attempt, backoff,
                   lines, reoffered>>
    /\ CCFrame

\* main lines 147-158: seen is loaded from the sink, the loops start
CCPreload ==
    /\ pc = "cc_preload"
    /\ seen' = sink0
    /\ total' = 0
    /\ CCCall(1, 1, 0)
    /\ resp' = "none" /\ msgs' = {} /\ NoInsert
    /\ UNCHANGED <<exc, batch, req, lines, reoffered>>
    /\ CCFrame

\* one attempt of fetch_index_records answered 200: lines 112-121, and the
\* caller's lines 160-164
CCFetchOk ==
    /\ pc = "cc_fetch"
    /\ \E text \in CCPages \cup {<<>>} :
          IF text = <<>>
          THEN CCBreak /\ UNCHANGED <<lines, batch>>
          ELSE /\ lines' = text /\ batch' = <<>>
               /\ pc' = "cc_line"
               /\ attempt' = 0 /\ backoff' = 0
               /\ UNCHANGED <<snap, pat, page>>
    /\ req' = <<snap, pat, page>> /\ resp' = "ok" /\ msgs' = {} /\ NoInsert
    /\ UNCHANGED <<exc, seen, total, reoffered>>
    /\ CCFrame

\* one attempt answered 400: lines 113-114, "return []"
CCFetch400 ==
    /\ pc = "cc_fetch"
    /\ CCBreak
    /\ req' = <<snap, pat, page>> /\ resp' = "400" /\ msgs' = {} /\ NoInsert
    /\ UNCHANGED <<exc, seen, batch, total, lines, reoffered>>
    /\ CCFrame

\* one attempt answered 429: lines 115-119. int() of a Retry-After that is
\* not a number raises ValueError, which "except RequestException" lets pass;
\* after the last attempt the loop ends and the function returns None
CCFetch429 ==
    /\ pc = "cc_fetch"
    /\ \E h \in RetryAfterValues :
          IF h # NoHeader /\ ~IsDecimal(h)
          THEN /\ pc' = "crashed" /\ exc' = "ValueError"
               /\ UNCHANGED <<snap, pat, page, attempt, backoff>>
          ELSE /\ exc' = exc
               /\ IF attempt < Retries
                  THEN /\ attempt' = attempt + 1 /\ backoff' = backoff * 2
                       /\ UNCHANGED <<pc, snap, pat, page>>
                  ELSE CCBreak
    /\ req' = <<snap, pat, page>> /\ resp' = "429" /\ msgs' = {} /\ NoInsert
    /\ UNCHANGED <<seen, batch, total, lines, reoffered>>
    /\ CCFrame

\* one attempt raised RequestException (no response, or raise_for_status on
\* a 5xx): lines 122-129
CCFetchError ==
    /\ pc = "cc_fetch"
    /\ \E k \in {"5xx", "net"} : resp' = k
    /\ IF attempt < Retries
       THEN /\ attempt' = attempt + 1 /\ backoff' = backoff * 2
            /\ msgs' = {"fetch retry"}
            /\ UNCHANGED <<pc, snap, pat, page>>
       ELSE msgs' = {"giving up"} /\ CCBreak
    /\ req' = <<snap, pat, page>> /\ NoInsert
    /\ UNCHANGED <<exc, seen, batch, total, lines, reoffered>>
    /\ CCFrame

\* "for line in lines" takes the next line, or the loop is over
CCNextLine ==
    /\ lines' = Tail(lines)
    /\ pc' = IF Len(lines) > 1 THEN "cc_line" ELSE "cc_endpage"

\* main lines 164-177 for one line
CCLine ==
    /\ pc = "cc_line"
    /\ LET line  == Head(lines)
           clean == NormCC[line]
       IN  IF line = BadLine \/ clean = <<>>
           THEN CCNextLine /\ UNCHANGED <<seen, batch, total, reoffered>>
           ELSE /\ pc' = "cc_chk" /\ lines' = lines
                /\ IF line \in KeptCC
                   THEN /\ NoteOffer(clean)
                        /\ IF Novel(clean)
                           THEN Accept(clean) /\ total' = total + 1
                           ELSE UNCHANGED <<seen, batch, total>>
                   ELSE UNCHANGED <<seen, batch, total, reoffered>>
    /\ resp' = "none" /\ msgs' = {} /\ NoInsert
    /\ UNCHANGED <<exc, pat, req, snap, page, attempt, backoff>>
    /\ CCFrame

\* main lines 179-181: the batch is flushed when it has reached batch_size
CCCheck ==
    /\ pc = "cc_chk"
    /\ IF Len(batch) >= batch_size
       THEN (\E e \in BOOLEAN : save_batch(batch, e)) /\ batch' = <<>>
       ELSE NoInsert /\ msgs' = {} /\ batch' = batch
    /\ CCNextLine
    /\ resp' = "none"
    /\ UNCHANGED <<exc, seen, total, pat, req, snap, page, attempt, backoff,
                   reoffered>>
    /\ CCFrame

\* main lines 183-184, then the next page of the pattern
CCEndPage ==
    /\ pc = "cc_endpage"
    /\ IF batch # <<>>
       THEN \E e \in BOOLEAN : save_batch(batch, e)
       ELSE NoInsert /\ msgs' = {}
    /\ IF page + 1 < max_pages THEN CCCall(snap, pat, page + 1) ELSE CCBreak
    /\ resp' = "none"
    /\ UNCHANGED <<exc, seen, batch, total, req, lines, reoffered>>
    /\ CCFrame

CCNext ==
    \/ CCDiscover \/ CCPreload
    \/ CCFetchOk \/ CCFetch400 \/ CCFetch429 \/ CCFetchError
    \/ CCLine \/ CCCheck \/ CCEndPage

(***************************************************************************)
(* wayback_cdx_sourcer.py: backfill and stream_cdx.                        *)
(***************************************************************************)

WBFrame == Static /\ UNCHANGED <<ccVars, windows, normVars>>

\* the identities normalize_url gives for a list of URLs
IdsOf(us) == {NormWB[us[k]] : k \in {j \in 1..Len(us) : ~Falsy(NormWB[us[j]])}}

\* the day the running single-day query asks for lies in the failed window
InWindow == fb /\ frm <= qfrm /\ qfrm <= to

\* stream_cdx returned all_urls: the caller's for loop over urls starts, or,
\* with nothing to loop over, the batch-size test that follows it
WBReturn(all_urls) ==
    /\ urls' = all_urls
    /\ pc' = IF all_urls = <<>> THEN "wb_chk" ELSE "wb_offer"
    /\ conts' = 0
    /\ dayUrls' = IF InWindow THEN dayUrls \cup IdsOf(all_urls) ELSE dayUrls

\* backfill lines 139-148: seen is loaded from the sink and month_boundaries
\* is started
WBPreload ==
    /\ pc = "wb_start"
    /\ seen' = sink0 /\ batch' = <<>> /\ total' = 0
    /\ current' = MonthFirst(start)
    /\ pc' = "wb_month"
    /\ resp' = "none" /\ msgs' = {} /\ NoInsert
    /\ UNCHANGED <<exc, pat, req, ms, me, cur, frm, to, fb, dayIdx, qfrm, qto,
                   urls, conts, reoffered, dayUrls, daysOK, promised>>
    /\ WBFrame

\* the next month of month_boundaries, or the end of the loop of line 148
WBMonth ==
    /\ pc = "wb_month"
    /\ IF DateLE(current, end)
       THEN /\ ms' = MonthYield(current, end)[1]
            /\ me' = MonthYield(current, end)[2]
            /\ current' = MonthAdvance(current)
            /\ pat' = 1 /\ cur' = ms'
            /\ pc' = "wb_week"
       ELSE pc' = "wb_final" /\ UNCHANGED <<ms, me, current, pat, cur>>
    /\ resp' = "none" /\ msgs' = {} /\ NoInsert
    /\ UNCHANGED <<exc, seen, batch, total, req, frm, to, fb, dayIdx, qfrm, qto,
                   urls, conts, reoffered, dayUrls, daysOK, promised>>
    /\ WBFrame

\* the next window of week_ranges(ms, me) for the pattern, or the next
\* pattern, or the next month: lines 150-153
WBWeek ==
    /\ pc = "wb_week"
    /\ IF DateLE(cur, me)
       THEN /\ frm' = strftime(cur) /\ to' = strftime(WeekEnd(cur, me))
            /\ cur' = NextDay(WeekEnd(cur, me))
            /\ qfrm' = frm' /\ qto' = to'
            /\ pc' = "wb_query" /\ pat' = pat
       ELSE /\ IF pat < NPatterns
               THEN pat' = pat + 1 /\ cur' = ms /\ pc' = "wb_week"
               ELSE pc' = "wb_month" /\ UNCHANGED <<pat, cur>>
            /\ UNCHANGED <<frm, to, qfrm, qto>>
    /\ resp' = "none" /\ msgs' = {} /\ NoInsert
    /\ UNCHANGED <<exc, seen, batch, total, req, current, ms, me, fb, dayIdx,
                   urls, conts, reoffered, dayUrls, daysOK, promised>>
    /\ WBFrame

\* stream_cdx lines 84-93, the first request answered 200: the page's URLs
\* and whether it carries a resume key
WBQueryOk ==
    /\ pc = "wb_query"
    /\ \E p \in WBPages, more \in BOOLEAN :
          /\ more => MaxCont > 0
          /\ IF more
             THEN urls' = p /\ pc' = "wb_cont" /\ UNCHANGED <<conts, dayUrls>>
             ELSE WBReturn(p)
    /\ req' = <<pat, qfrm, qto>> /\ resp' = "ok" /\ msgs' = {} /\ NoInsert
    /\ UNCHANGED <<exc, seen, batch, total, pat, current, ms, me, cur, frm, to,
                   fb, dayIdx, qfrm, qto, reoffered, daysOK, promised>>
    /\ WBFrame

\* stream_cdx lines 84-90, the first request failed (raise_for_status on any
\* 4xx or 5xx, or no response): None is returned. For a window the caller
\* starts the single-day fallback (156-157); for a day it goes on with []
WBQueryFail ==
    /\ pc = "wb_query"
    /\ \E k \in FailKinds : resp' = k
    /\ IF ~fb
       THEN /\ fb' = TRUE /\ dayIdx' = 0 /\ pc' = "wb_day"
            /\ dayUrls' = {} /\ daysOK' = TRUE
       ELSE /\ pc' = "wb_chk"
            /\ daysOK' = IF InWindow THEN FALSE ELSE daysOK
            /\ UNCHANGED <<fb, dayIdx, dayUrls>>
    /\ req' = <<pat, qfrm, qto>> /\ msgs' = {"stream failed"} /\ NoInsert
    /\ UNCHANGED <<exc, seen, batch, total, pat, current, ms, me, cur, frm, to,
                   qfrm, qto, urls, conts, reoffered, promised>>
    /\ WBFrame

\* stream_cdx lines 94-110, a continuation request answered 200
WBContOk ==
    /\ pc = "wb_cont"
    /\ \E p \in WBPages, more \in BOOLEAN :
          /\ more => conts + 1 < MaxCont
          /\ IF more
             THEN urls' = urls \o p /\ conts' = conts + 1 /\ UNCHANGED <<pc, dayUrls>>
             ELSE WBReturn(urls \o p)
    /\ req' = <<pat, qfrm, qto>> /\ resp' = "ok" /\ msgs' = {} /\ NoInsert
    /\ UNCHANGED <<exc, seen, batch, total, pat, current, ms, me, cur, frm, to,
                   fb, dayIdx, qfrm, qto, reoffered, daysOK, promised>>
    /\ WBFrame

\* stream_cdx lines 105-106, a continuation request failed: the exception
\* is raised outside any try and ends backfill
WBContFail ==
    /\ pc = "wb_cont"
    /\ \E k \in FailKinds : resp' = k
    /\ pc' = "crashed" /\ exc' = "RequestException"
    /\ req' = <<pat, qfrm, qto>> /\ msgs' = {} /\ NoInsert
    /\ UNCHANGED <<seen, batch, total, pat, current, ms, me, cur, frm, to, fb,
                   dayIdx, qfrm, qto, urls, conts, reoffered, dayUrls,
                   daysOK, promised>>
    /\ WBFrame

\* backfill lines 161-165 and 173-177 for one URL
WBOffer ==
    /\ pc = "wb_offer"
    /\ LET norm == NormWB[Head(urls)]
       IN  IF Falsy(norm)
           THEN UNCHANGED <<seen, batch, reoffered>>
           ELSE /\ NoteOffer(norm)
                /\ IF Novel(norm) THEN Accept(norm) ELSE UNCHANGED <<seen, batch>>
    /\ urls' = Tail(urls)
    /\ pc' = IF Len(urls) > 1 THEN "wb_offer" ELSE "wb_chk"
    /\ resp' = "none" /\ msgs' = {} /\ NoInsert
    /\ UNCHANGED <<exc, total, pat, req, current, ms, me, cur, frm, to, fb,
                   dayIdx, qfrm, qto, conts, dayUrls, daysOK, promised>>
    /\ WBFrame

\* backfill lines 166-169 and 178-181: after the URLs of the window (or of
\* the day) the batch is flushed if it has reached batch_size
WBCheck ==
    /\ pc = "wb_chk"
    /\ IF Len(batch) >= batch_size
       THEN /\ \E e \in BOOLEAN : insert_rows(batch, e)
            /\ total' = total + Len(batch)
            /\ batch' = <<>>
       ELSE NoInsert /\ msgs' = {} /\ UNCHANGED <<total, batch>>
    /\ IF fb THEN dayIdx' = dayIdx + 1 /\ pc' = "wb_day"
             ELSE dayIdx' = dayIdx /\ pc' = "wb_week"
    /\ resp' = "none"
    /\ UNCHANGED <<exc, seen, pat, req, current, ms, me, cur, frm, to, fb,
                   qfrm, qto, urls, conts, reoffered, dayUrls, daysOK,
                   promised>>
    /\ WBFrame

\* backfill lines 157-160 and 170: the next day of ms..me is queried, or the
\* fallback is over and the loop over windows continues
WBDay ==
    /\ pc = "wb_day"
    /\ IF dayIdx <= DaysBetween(ms, me)
       THEN /\ qfrm' = strftime(AddDays(ms, dayIdx))
            /\ qto' = strftime(AddDays(ms, dayIdx))
            /\ pc' = "wb_query"
            /\ UNCHANGED <<fb, dayIdx, promised, dayUrls, daysOK>>
       ELSE /\ fb' = FALSE /\ dayIdx' = 0 /\ pc' = "wb_week"
            /\ promised' = IF daysOK THEN promised \cup dayUrls ELSE promised
            /\ dayUrls' = {} /\ daysOK' = FALSE
            /\ UNCHANGED <<qfrm, qto>>
    /\ resp' = "none" /\ msgs' = {} /\ NoInsert
    /\ UNCHANGED <<exc, seen, batch, total, pat, req, current, ms, me, cur,
                   frm, to, urls, conts, reoffered>>
    /\ WBFrame

\* the end of backfill without the flush of the remainder (mutant of WBFinal)
WBFinalNoFlush ==
    /\ pc = "wb_final"
    /\ NoInsert /\ msgs' = {} /\ total' = total
    /\ pc' = "done"
    /\ resp' = "none"
    /\ UNCHANGED <<exc, seen, batch, pat, req, current, ms, me, cur, frm, to,
                   fb, dayIdx, qfrm, qto, urls, conts, reoffered, dayUrls,
                   daysOK, promised>>
    /\ WBFrame

\* backfill lines 183-187: the remainder is flushed and the run ends
WBFinal ==
    /\ pc = "wb_final"
    /\ IF batch # <<>>
       THEN (\E e \in BOOLEAN : insert_rows(batch, e)) /\ total' = total + Len(batch)
       ELSE NoInsert /\ msgs' = {} /\ total' = total
    /\ pc' = "done"
    /\ resp' = "none"
    /\ UNCHANGED <<exc, seen, batch, pat, req, current, ms, me, cur, frm, to,
                   fb, dayIdx, qfrm, qto, urls, conts, reoffered, dayUrls,
                   daysOK, promised>>
    /\ WBFrame

WBNext ==
    \/ WBPreload \/ WBMonth \/ WBWeek
    \/ WBQueryOk \/ WBQueryFail \/ WBContOk \/ WBContFail
    \/ WBOffer \/ WBCheck \/ WBDay \/ WBFinal

Next == CCNext \/ WBNext

Spec == Init /\ [][Next]_vars

(***************************************************************************)
(* The window planner alone: month_boundaries composed with week_ranges as *)
(* backfill composes them (lines 148 and 152), for one pattern, over every *)
(* explicit range of the bound.                                            *)
(***************************************************************************)

\* the PlanDays + 1 days from PlanBase on (PlanDays is less than a year)
PlanDates ==
    {dt \in (PlanBase[1]..(PlanBase[1] + 1)) \X (1..12) \X (1..31) :
        /\ dt[3] <= monthrange(dt[1], dt[2])
        /\ Ordinal(dt) >= Ordinal(PlanBase)
        /\ Ordinal(dt) <= Ordinal(PlanBase) + PlanDays}

InitPlan ==
    /\ prog = "plan" /\ pc = "plan_start"
    /\ batch_size = 1 /\ sink0 = {}
    /\ Common0 /\ CCIdle /\ WBIdle /\ NormIdle
    /\ start \in PlanDates /\ end \in PlanDates

PlanFrame ==
    /\ Static
    /\ UNCHANGED <<exc, seen, batch, total, rows, pat, resp, req, msgs, errs,
                   ccVars, fb, dayIdx, qfrm, qto, urls, conts,
                   reoffered, dayUrls, daysOK, promised, normVars>>

\* month_boundaries is started: line 46
PlanStart ==
    /\ pc = "plan_start"
    /\ current' = MonthFirst(start)
    /\ pc' = "plan_month"
    /\ UNCHANGED <<ms, me, cur, frm, to, windows>>
    /\ PlanFrame

\* the next month of month_boundaries, lines 47-58
PlanMonth ==
    /\ pc = "plan_month"
    /\ IF DateLE(current, end)
       THEN /\ ms' = MonthYield(current, end)[1]
            /\ me' = MonthYield(current, end)[2]
            /\ current' = MonthAdvance(current)
            /\ cur' = ms'
            /\ pc' = "plan_week"
       ELSE pc' = "plan_done" /\ UNCHANGED <<ms, me, current, cur>>
    /\ UNCHANGED <<frm, to, windows>>
    /\ PlanFrame

\* the next window of week_ranges(ms, me), lines 61-65
PlanWeek ==
    /\ pc = "plan_week"
    /\ IF DateLE(cur, me)
       THEN /\ frm' = strftime(cur) /\ to' = strftime(WeekEnd(cur, me))
            /\ cur' = NextDay(WeekEnd(cur, me))
            /\ windows' = Append(windows, <<Ordinal(cur), Ordinal(WeekEnd(cur, me))>>)
            /\ pc' = pc
       ELSE pc' = "plan_month" /\ UNCHANGED <<cur, frm, to, windows>>
    /\ UNCHANGED <<current, ms, me>>
    /\ PlanFrame

PlanNext == PlanStart \/ PlanMonth \/ PlanWeek

PlanSpec == InitPlan /\ [][PlanNext]_vars

(***************************************************************************)
(* normalize_url of both programs applied to one raw URL, the offer of     *)
(* its result to the dedup stage, and normalize_url applied once more to   *)
(* what it returned.                                                       *)
(***************************************************************************)

\* scheme and host of the raw URLs: https with www., http without a label,
\* protocol-relative with m., https with m.
Fronts ==
    { S_https \o S_www \o S_yt, S_http \o S_yt,
      S_slash2 \o S_m \o S_yt, S_https \o S_m \o S_yt }

\* a recognized prefix followed by an identifier
DirectPaths ==
    { <<"/", "@", "a">>,
      <<"/", "c", "/", "a">>,
      <<"/", "c", "h", "a", "n", "n", "e", "l", "/", "U", "C", "a">>,
      <<"/", "u", "s", "e", "r", "/", "a">>,
      <<"/", "+", "a">> }

\* a recognized prefix with no identifier (the tail adds the trailing slash)
BarePaths ==
    { <<"/", "@">>,
      <<"/", "c">>,
      <<"/", "c", "h", "a", "n", "n", "e", "l">>,
      <<"/", "u", "s", "e", "r">>,
      <<"/", "+">> }

\* redirect-style captures of the channel UCa
BrowsePaths ==
    { <<"/", "b", "r", "o", "w", "s", "e", "/", "x", "-", "U", "C", "a">>,
      <<"/", "b", "r", "o", "w", "s", "e", "/", "U", "C", "x", "-", "U", "C", "a">> }

\* handles with percent-encoded characters
EncodedPaths ==
    { <<"/", "%", "4", "0", "a">>,
      <<"/", "@", "a", "%", "3", "F", "b">>,
      <<"/", "@", "a", "%", "2", "5", "4", "1">> }

\* what follows the path: nothing, a trailing slash, a query string, a fragment
Tails ==
    { <<>>,
      <<"/">>,
      <<"?", "x", "=", "1">>,
      <<"#", "f">> }

\* the identifier of the channel of BrowsePaths
UCid == <<"U", "C", "a">>

KindPaths ==
    [direct |-> DirectPaths, bare |-> BarePaths, browse |-> BrowsePaths,
     encoded |-> EncodedPaths]

InitNorm ==
    /\ prog = "norm" /\ pc = "norm_start"
    /\ batch_size = 1 /\ sink0 = {}
    /\ Common0 /\ CCIdle /\ WBIdle
    /\ start = NoDate /\ end = NoDate
    /\ url_kind \in DOMAIN KindPaths
    /\ url_path \in KindPaths[url_kind]
    /\ \E f \in Fronts, tl \in Tails : url_raw = f \o url_path \o tl
    /\ id_cc = <<>> /\ id_wb = <<>> /\ again = <<>>

NormFrame ==
    UNCHANGED <<batch_size, sink0, exc, total, rows, pat, resp, req, msgs, errs,
                ccVars, wbVars, histVars, url_raw, url_kind, url_path>>

\* main line 170 and backfill line 162 / 174: normalize_url(raw)
NormApply ==
    /\ pc = "norm_start"
    /\ id_cc' = normalize_url_cc(url_raw)
    /\ id_wb' = normalize_url_wb(url_raw)
    /\ pc' = "norm_offer"
    /\ UNCHANGED <<prog, seen, batch, again>>
    /\ NormFrame

\* the offer of one of the programs: main lines 171-176, backfill lines
\* 175-177
NormOffer ==
    /\ pc = "norm_offer"
    /\ \E p \in {"cc", "wb"} :
          /\ prog' = p
          /\ IF p = "cc"
             THEN IF CCAccepts(id_cc) /\ Novel(id_cc)
                  THEN Accept(id_cc) ELSE UNCHANGED <<seen, batch>>
             ELSE IF ~Falsy(id_wb) /\ Novel(id_wb)
                  THEN Accept(id_wb) ELSE UNCHANGED <<seen, batch>>
    /\ pc' = "norm_again"
    /\ UNCHANGED <<id_cc, id_wb, again>>
    /\ NormFrame

\* normalize_url of each program applied to the identity it returned
NormAgain ==
    /\ pc = "norm_again"
    /\ again' = << IF id_cc = <<>> THEN <<>> ELSE normalize_url_cc(id_cc),
                   IF Falsy(id_wb) THEN id_wb ELSE normalize_url_wb(id_wb) >>
    /\ pc' = "norm_done"
    /\ UNCHANGED <<prog, seen, batch, id_cc, id_wb>>
    /\ NormFrame

NormNext == NormApply \/ NormOffer \/ NormAgain

NormSpec == InitNorm /\ [][NormNext]_vars

(***************************************************************************)
(* The claims.                                                             *)
(***************************************************************************)

\* the run is past the preload of seen
Preloaded == pc \notin {"cc_start", "cc_preload", "wb_start", "exit"}

\* the run has ended, normally or by an exception
Ended == pc \in {"done", "crashed", "exit"}

\* C1: no identity submitted to the sink was in the preloaded set, and no
\* identity is submitted in more than one row over the whole run.
C1_NoReinsert ==
    \A id \in Identities : rows[id] <= 1 /\ (id \in sink0 => rows[id] = 0)

\* C1 witness: inside the single-day fallback, with IdA preloaded, IdB has
\* been submitted once and an accepted identity has been offered again.
C1_Witness ==
    fb /\ IdA \in sink0 /\ rows[IdB] = 1 /\ rows[IdA] = 0 /\ reoffered

\* C2: when a run ends normally, every identity accepted as novel during the
\* run has been submitted in exactly one row, and no remainder is left in
\* the batch unsubmitted.
C2_AllFlushedOnce ==
    pc = "done" =>
        /\ \A id \in seen \ sink0 : rows[id] = 1
        /\ \A k \in 1..Len(batch) : rows[batch[k]] = 1

\* C2 witness: a CDX run ended with the flush of a remainder, after an
\* identity it had accepted was offered a second time.
C2_Witness ==
    prog = "wb" /\ pc = "done" /\ errs # "none" /\ reoffered /\ rows[IdA] = 1

\* C3: for start <= end the windows of the planner are in increasing order,
\* non-overlapping and gap-free, and cover exactly the days start..end.
C3_ExactCover ==
    (pc = "plan_done" /\ DateLE(start, end)) =>
        /\ Len(windows) >= 1
        /\ windows[1][1] = Ordinal(start)
        /\ windows[Len(windows)][2] = Ordinal(end)
        /\ \A k \in 1..Len(windows) : windows[k][1] <= windows[k][2]
        /\ \A k \in 1..(Len(windows) - 1) : windows[k + 1][1] = windows[k][2] + 1

\* C4: when a window's query failed and the query of each of its days
\* succeeded, every identity served for those days has been offered (is in
\* seen) and, once the run has ended, is in the sink: preloaded or submitted.
C4_FallbackRecovers ==
    /\ promised \subseteq seen
    /\ Ended => \A id \in promised : id \in sink0 \/ rows[id] >= 1

\* C5: a failed page request, first page or continuation page, never ends
\* the run, and nothing of the failed page is processed (the 429 whose
\* Retry-After header cannot be parsed is the case of C6 and is left out).
C5_PageFailureNotFatal ==
    [][(resp' \in FailKinds /\ exc' # "ValueError") =>
          /\ pc' # "crashed" /\ exc' = "none"
          /\ seen' = seen /\ batch' = batch]_vars

\* C6: fetch_index_records makes at most Retries requests for a page, each
\* for the snapshot, pattern and page it was called with, and returns
\* without raising; a success or a 400 ends the attempts at once.
C6_FetchBounded ==
    [][pc = "cc_fetch" =>
          /\ attempt <= Retries
          /\ req' = <<snap, pat, page>>
          /\ pc' # "crashed" /\ exc' = "none"
          /\ resp' \in {"ok", "400"} => (pc' # "cc_fetch" \/ attempt' = 1)]_vars

\* C7: a 400 response is zero results in both harvesters: no retry, the
\* task is not marked failed, no fallback to smaller windows starts.
C7_BadRequestIsEmpty ==
    [][resp' = "400" =>
          /\ pc' \notin {"wb_day", "crashed"}
          /\ fb' = fb
          /\ "stream failed" \notin msgs'
          /\ prog = "cc" => (pc' # "cc_fetch" \/ attempt' = 1)]_vars

\* C8: the batch never holds more than batch_size entries, and never two
\* entries with the same identity.
C8_BatchBounded ==
    /\ Len(batch) <= batch_size
    /\ \A j, k \in 1..Len(batch) : batch[j] = batch[k] => j = k

\* C9: seen contains every preloaded identity and every identity submitted
\* so far, and seen only grows.
C9_SeenSuperset ==
    /\ [](Preloaded =>
            /\ sink0 \subseteq seen
            /\ \A id \in Identities : rows[id] > 0 => id \in seen)
    /\ [][seen \subseteq seen']_vars

\* C9 witness: a run with a preloaded identity has submitted another one.
C9_Witness ==
    sink0 # {} /\ \E id \in Identities \ sink0 : rows[id] > 0 /\ id \in seen

\* the positions at which the batch list is in use: an entry can be appended
\* to it or it can be submitted
BatchLive ==
    pc \in {"cc_line", "cc_chk", "cc_endpage", "wb_month", "wb_week", "wb_query",
            "wb_cont", "wb_offer", "wb_chk", "wb_day", "wb_final"}

ZeroTasks ==
    \/ prog = "cc" /\ nsnaps = 0
    \/ prog = "wb" /\ ~DateLE(MonthFirst(start), end)

\* C11: a run whose span resolves to zero tasks ends with a reported error
\* and a non-zero exit before any work: it never reads the sink, never
\* issues a query and never ends normally.
C11_ZeroTasksFatal ==
    ZeroTasks =>
        /\ pc \in {"cc_start", "wb_start", "exit"}
        /\ pc = "exit" => exc = "SystemExit"
        /\ req = <<>>
        /\ \A id \in Identities : rows[id] = 0

\* C12: the fallback after a failed window is bounded: no query asks for
\* less than one day, a failed window that spans a single day is not split
\* or queried again, and a failed single-day query of the fallback is not
\* repeated.
C12_FallbackBounded ==
    /\ [](pc = "wb_query" => qfrm <= qto)
    /\ [][(pc = "wb_query" /\ resp' \in FailKinds) =>
            /\ (~fb /\ frm = to) => (~fb' /\ pc' # "wb_day")
            /\ fb => (fb' /\ pc' # "wb_query")]_vars

\* normalize_url has been applied to url_raw
Normalized == pc \in {"norm_offer", "norm_again", "norm_done"}

\* C13: a direct-form URL, prefix and identifier, canonicalizes in both
\* programs to https://www.youtube.com followed by its path, whatever the
\* scheme, the host label, the query string, the fragment or the trailing
\* slash.
C13_DirectForm ==
    (Normalized /\ url_kind = "direct") =>
        /\ id_cc = CanonHost \o url_path
        /\ id_wb = CanonHost \o url_path

\* C14: for every raw URL a normalize_url accepts, the same normalize_url
\* applied to the identity it returned gives that identity again.
C14_Idempotent ==
    pc = "norm_done" =>
        /\ id_cc # <<>> => again[1] = id_cc
        /\ ~Falsy(id_wb) => again[2] = id_wb

\* C15: a raw URL whose path is a recognized prefix with no identifier is
\* never recorded: after the offer it is neither in seen nor in the batch.
C15_BarePrefixRejected ==
    url_kind = "bare" => (seen = {} /\ batch = <<>>)

\* C16: a redirect-style capture /browse/<anything>-<UC-id> canonicalizes,
\* in both programs, to https://www.youtube.com/channel/<UC-id>, the
\* identity of the direct-form capture of the same channel.
C16_BrowseEquivalence ==
    (Normalized /\ url_kind = "browse") =>
        /\ id_cc = CanonHost \o S_channel \o UCid
        /\ id_wb = CanonHost \o S_channel \o UCid

\* C17: for every raw URL that the normalize_url of both programs accepts,
\* the two identities are the same string.
C17_MethodsAgree ==
    (Normalized /\ id_cc # <<>> /\ ~Falsy(id_wb)) => id_cc = id_wb

\* C18: every query of the fallback has the pattern of the failed window and
\* asks for a day inside the failed window frm..to.
C18_FallbackInsideWindow ==
    /\ []((fb /\ pc = "wb_query") => (frm <= qfrm /\ qto <= to))
    /\ [][(fb /\ fb') => (pat' = pat /\ frm' = frm /\ to' = to)]_vars

\* C19: when the last attempt of fetch_index_records for a page meets a
\* transient condition (429, 5xx or a network error), the give-up is reported.
C19_GiveUpReported ==
    [][(pc = "cc_fetch" /\ attempt = Retries /\ resp' \in {"429", "5xx", "net"}
          /\ exc' = "none")
        => "giving up" \in msgs']_vars

\* a task (one snapshot or window with one pattern) has been completed and
\* no page of the next one has been processed
TaskBoundary ==
    \/ prog = "cc" /\ pc = "cc_fetch" /\ page = 0
    \/ prog = "wb" /\ pc \in {"wb_week", "wb_month"}

\* C20: at every task boundary nothing is held in memory only: every
\* identity the run has added to seen has been submitted to the sink.
C20_NothingPendingAtBoundary ==
    TaskBoundary =>
        /\ \A id \in seen \ sink0 : rows[id] >= 1
        /\ \A k \in 1..Len(batch) : rows[batch[k]] >= 1

=============================================================================
